---------------------------- MODULE Spec2Model ----------------------------
(***************************************************************************)
(* TSP heuristics (Nearest Neighbour, Cheapest / Successive Insertion) and *)
(* the transport cost models of the F1 logistics scripts.                  *)
(*                                                                         *)
(* Number representation (Python floats are modelled in fixed point):      *)
(*   - circuit labels are naturals; their numeric order is the             *)
(*     lexicographic order of the circuit names;                           *)
(*   - distances are integers (km);                                        *)
(*   - eco factors are in tenths (truck 1.0 = 10, ship 0.6 = 6,            *)
(*     plane 3.0 = 30), so eco costs are in tenths of a cost unit;         *)
(*   - economic weights are in tenths (0.5 = 5), speed multipliers in      *)
(*     hundredths (0.15 = 15), costs in whole euros (rounded down), and    *)
(*     a score is kept multiplied by 1000 * COST_NORMALIZER.               *)
(* A call returns [value |-> v], or [error |-> <exception name>] when it    *)
(* raises.                                                                 *)
(***************************************************************************)
EXTENDS Integers, Sequences, FiniteSets, TLC

VARIABLES
    script,      \* the program that runs ("cost": calls of the cost models)
    pc,          \* position in the program
    FACTORS,     \* TransportModel.FACTORS (eco factors, tenths)
    params,      \* W_DIST, W_COST, COST_NORMALIZER, P_SPEED_MULT, P_FIX, P_VAR, T_FIX, T_VAR
    D,           \* the matrix handed to the heuristic
    nodes,       \* the node list handed to the heuristic
    roundtrip,   \* the roundtrip flag
    tour,        \* path (Nearest Neighbour) / tour (Insertion) under construction
    unvisited,   \* nodes not yet in the tour
    cur,         \* Nearest Neighbour: the current node
    total,       \* Nearest Neighbour: the running total
    acc,         \* economic Nearest Neighbour: modes_used, totals and counts
    result,      \* what the program returned, or the exception it raised
    run,         \* 1 on the first run, 2 on the re-run with the same inputs
    first,       \* the result of the first run
    call,        \* cost model: the last call (function and arguments)
    ret,         \* cost model: what the last call returned or raised
    D_file,      \* eco scripts: the distance matrix load_distance_matrix returned
    report       \* what the evaluation after the heuristic computed, or its exception

cfgVars == <<FACTORS, params>>
tspVars == <<D, nodes, roundtrip, tour, unvisited, cur, total, acc, result, run, first>>
costVars == <<call, ret>>
scriptVars == <<D_file, report>>
vars == <<script, pc, cfgVars, tspVars, costVars, scriptVars>>

-----------------------------------------------------------------------------
(* Bounds of the model *)

\* distances of the heuristics' matrices are 1..MaxDist
MaxDist == 2

-----------------------------------------------------------------------------
(* Helpers *)

None == [none |-> TRUE]

\* Python's None where a label is expected (labels are 1, 2, ...)
NoLabel == 0

\* a returned value
Ok(x) == [value |-> x]

\* a raised exception
Error(name) == [error |-> name]

IsError(v) == "error" \in DOMAIN v

Range(s) == {s[i] : i \in DOMAIN s}

\* Python's min(values)
Min(S) == CHOOSE x \in S : \A y \in S : x <= y

\* the first position of the least value of a non-empty list of keys
\* (Python's min(seq, key=...), pandas' idxmin, a scan with "<")
FirstMin(keys) ==
    CHOOSE i \in DOMAIN keys :
        /\ \A j \in DOMAIN keys : keys[i] <= keys[j]
        /\ \A j \in 1..(i - 1) : keys[j] > keys[i]

\* the last position of the least value
LastMin(keys) ==
    CHOOSE i \in DOMAIN keys :
        /\ \A j \in DOMAIN keys : keys[i] <= keys[j]
        /\ \A j \in (i + 1)..Len(keys) : keys[j] > keys[i]

\* the lists that hold every element of S once
Perms(S) ==
    {f \in [1..Cardinality(S) -> S] : \A i, j \in 1..Cardinality(S) : f[i] = f[j] => i = j}

\* sorted(S)
RECURSIVE Sorted(_)
Sorted(S) == IF S = {} THEN <<>> ELSE <<Min(S)>> \o Sorted(S \ {Min(S)})

Remove_nothing(seq, x) == seq

\* list.remove(x): the list without its first x
Remove(seq, x) ==
    LET k == CHOOSE i \in DOMAIN seq : seq[i] = x /\ \A j \in 1..(i - 1) : seq[j] # x
    IN  SubSeq(seq, 1, k - 1) \o SubSeq(seq, k + 1, Len(seq))

\* list.insert(pos, x), pos counted from 0
Insert(seq, pos, x) == SubSeq(seq, 1, pos) \o <<x>> \o SubSeq(seq, pos + 1, Len(seq))

\* [x for x in seq if keep[x]]
RECURSIVE Filter(_, _)
Filter(seq, keep) ==
    IF seq = <<>> THEN <<>>
    ELSE (IF Head(seq) \in keep THEN <<Head(seq)>> ELSE <<>>) \o Filter(Tail(seq), keep)

\* sum(values), left to right
RECURSIVE Sum(_)
Sum(seq) == IF seq = <<>> THEN 0 ELSE Sum(SubSeq(seq, 1, Len(seq) - 1)) + seq[Len(seq)]

\* floor of the square root
ISqrt(n) == CHOOSE r \in 0..n : r * r <= n /\ (r + 1) * (r + 1) > n

-----------------------------------------------------------------------------
(* Eco model: Eco_transport_data.py, Eco_transport_model.py *)

\* A sample of CIRCUIT_METADATA, the labels in the order of the names:
\* 1 Autodromo Enzo e Dino Ferrari, 2 Circuit de Barcelona-Catalunya,
\* 3 Circuit de Monaco, 4 Shanghai International Circuit
CIRCUIT_METADATA ==
    << [continent |-> "Europe", coastal |-> FALSE],
       [continent |-> "Europe", coastal |-> TRUE],
       [continent |-> "Europe", coastal |-> TRUE],
       [continent |-> "Asia", coastal |-> TRUE] >>

\* self.meta
meta == CIRCUIT_METADATA

\* the labels of the heuristics' matrices
Labels == DOMAIN CIRCUIT_METADATA

\* the labels a distance matrix file may hold: one has no metadata
FileLabels == 1..(Len(CIRCUIT_METADATA) + 1)

max_truck_distance == 1500

Modes == <<"truck", "ship", "plane">>

DefaultFactors == [truck |-> 10, ship |-> 6, plane |-> 30]

allowed_modes_lt(a, b, distance) ==
    IF a \notin DOMAIN meta \/ b \notin DOMAIN meta THEN Error("KeyError")
    ELSE LET A == meta[a]
             B == meta[b]
         IN  Ok((IF A.continent = B.continent /\ distance < max_truck_distance
                 THEN <<"truck">> ELSE <<>>)
                \o (IF A.continent # B.continent /\ A.coastal /\ B.coastal
                    THEN <<"ship">> ELSE <<>>)
                \o <<"plane">>)

\* TransportModel.allowed_modes: the list of modes, or KeyError
allowed_modes(a, b, distance) ==
    IF a \notin DOMAIN meta \/ b \notin DOMAIN meta THEN Error("KeyError")
    ELSE LET A == meta[a]
             B == meta[b]
         IN  Ok((IF A.continent = B.continent /\ distance <= max_truck_distance
                 THEN <<"truck">> ELSE <<>>)
                \o (IF A.continent # B.continent /\ A.coastal /\ B.coastal
                    THEN <<"ship">> ELSE <<>>)
                \o <<"plane">>)

transport_cost_dearest(a, b, distance) ==
    LET allowed == allowed_modes(a, b, distance)
        modes == allowed.value
    IN  IF IsError(allowed) THEN allowed
        ELSE Ok(-Min({-(distance * FACTORS[modes[i]]) : i \in DOMAIN modes}))

\* TransportModel.transport_cost: the least cost, or KeyError
transport_cost(a, b, distance) ==
    LET allowed == allowed_modes(a, b, distance)
        modes == allowed.value
    IN  IF IsError(allowed) THEN allowed
        ELSE Ok(Min({distance * FACTORS[modes[i]] : i \in DOMAIN modes}))

transport_cost_with_mode_last(a, b, distance) ==
    LET allowed == allowed_modes(a, b, distance)
        modes == allowed.value
    IN  IF IsError(allowed) THEN allowed
        ELSE LET best_mode ==
                     modes[LastMin([i \in DOMAIN modes |-> distance * FACTORS[modes[i]]])]
             IN  Ok(<<distance * FACTORS[best_mode], best_mode>>)

\* TransportModel.transport_cost_with_mode: (best_cost, best_mode), or KeyError
transport_cost_with_mode(a, b, distance) ==
    LET allowed == allowed_modes(a, b, distance)
        modes == allowed.value
    IN  IF IsError(allowed) THEN allowed
        ELSE LET best_mode ==
                     modes[FirstMin([i \in DOMAIN modes |-> distance * FACTORS[modes[i]]])]
                 best_cost == distance * FACTORS[best_mode]
             IN  Ok(<<best_cost, best_mode>>)

\* the index (= columns) of a square matrix
Index(M) == {p[1] : p \in DOMAIN M}

build_cost_matrix_plane(distance_matrix) ==
    LET idx == Index(distance_matrix)
    IN  IF \E i, j \in idx : i # j /\ IsError(transport_cost(i, j, distance_matrix[<<i, j>>]))
        THEN Error("KeyError")
        ELSE Ok([p \in idx \X idx |->
                    IF p[1] = p[2] THEN 0
                    ELSE distance_matrix[p] * FACTORS["plane"]])

\* TransportModel.build_cost_matrix: the cost matrix, or KeyError
build_cost_matrix(distance_matrix) ==
    LET idx == Index(distance_matrix)
    IN  IF \E i, j \in idx : i # j /\ IsError(transport_cost(i, j, distance_matrix[<<i, j>>]))
        THEN Error("KeyError")
        ELSE Ok([p \in idx \X idx |->
                    IF p[1] = p[2] THEN 0
                    ELSE transport_cost(p[1], p[2], distance_matrix[p]).value])

build_cost_matrix_in_place(distance_matrix) ==
    IF IsError(build_cost_matrix(distance_matrix)) THEN distance_matrix
    ELSE build_cost_matrix(distance_matrix).value

\* what the argument of build_cost_matrix holds when the call is over. Line
\* 85, cost = distance_matrix.astype(float).copy(), makes cost an object of
\* its own: the assignments cost.loc[i, j] = ... of lines 90 and 93 write to
\* it, and distance_matrix is only read (lines 87, 88, 92)
distance_matrix_after(distance_matrix) == distance_matrix

\* stats of analyze_transport_modes before the first leg
NoStats == [m \in {"truck", "ship", "plane"} |-> [count |-> 0, km |-> 0]]

\* the loop of analyze_transport_modes from leg i on: (edges, stats), or the
\* KeyError of transport_cost_with_mode
RECURSIVE AnalyzeFrom(_, _, _, _, _)
AnalyzeFrom(path, distances, i, edges, stats) ==
    IF i > Len(path) - 1 THEN Ok([edges |-> edges, stats |-> stats])
    ELSE LET a == path[i]
             b == path[i + 1]
             d == distances[<<a, b>>]
             leg == transport_cost_with_mode(a, b, d)
             mode == leg.value[2]
         IN  IF IsError(leg) THEN leg
             ELSE AnalyzeFrom(path, distances, i + 1, Append(edges, <<a, b, mode>>),
                              [stats EXCEPT ![mode].count = @ + 1, ![mode].km = @ + d])

analyze_transport_modes_from_second(path, distances) ==
    AnalyzeFrom(path, distances, 2, <<>>, NoStats)

\* analyze_transport_modes(path, D, tm)
analyze_transport_modes(path, distances) == AnalyzeFrom(path, distances, 1, <<>>, NoStats)

\* the transport-weighted total the eco scripts report for a path: the sum
\* of the entries of the cost matrix along it
weighted_total(path, distances) ==
    LET cost == build_cost_matrix(distances).value
    IN  Sum([i \in 1..(Len(path) - 1) |-> cost[<<path[i], path[i + 1]>>]])

-----------------------------------------------------------------------------
(* Economic model: time_cost_multimodel_NN.py, time_cost_multimodel_IH.py *)

T_SPEED_MULT == 100

DefaultParams ==
    [W_DIST |-> 5, W_COST |-> 5, COST_NORMALIZER |-> 500, P_SPEED_MULT |-> 15,
     P_FIX |-> 250000, P_VAR |-> 80, T_FIX |-> 2000, T_VAR |-> 3]

\* floor(500 * math.log(dist + 1)), tabled for the distances of the model
Log500(dist) ==
    CASE dist = 0 -> 0
      [] dist = 1 -> 346
      [] dist = 2 -> 549
      [] dist = 3 -> 693
      [] dist = 4 -> 804
      [] dist = 5 -> 895
      [] dist = 100 -> 2307
      [] dist = 900 -> 3401
      [] dist = 1400 -> 3622
      [] dist = 1499 -> 3656
      [] dist = 1500 -> 3656
      [] dist = 1501 -> 3657
      [] dist = 2500 -> 3912

\* floor(0.000001 * dist ** 2.5): exact for squares, and 0 below 252 km
fuel_penalty(dist) == (dist * dist * ISqrt(dist)) \div 1000000

t_cost(dist) == params.T_FIX + dist * params.T_VAR

t_score(dist) ==
    params.W_DIST * dist * T_SPEED_MULT * params.COST_NORMALIZER
    + params.W_COST * t_cost(dist) * 100

p_cost(dist) == params.P_FIX + Log500(dist) * params.P_VAR + fuel_penalty(dist)

p_score(dist) ==
    params.W_DIST * dist * params.P_SPEED_MULT * params.COST_NORMALIZER
    + params.W_COST * p_cost(dist) * 100

get_metrics_no_guard(dist, reg1, reg2) ==
    IF params.COST_NORMALIZER = 0 THEN Error("ZeroDivisionError")
    ELSE IF dist + 1 <= 0 THEN Error("ValueError")
    ELSE IF t_score(dist) <= p_score(dist)
         THEN Ok(<<t_cost(dist), t_score(dist), "TRUCK">>)
         ELSE Ok(<<p_cost(dist), p_score(dist), "PLANE">>)

get_metrics_lt(dist, reg1, reg2) ==
    IF params.COST_NORMALIZER = 0 THEN Error("ZeroDivisionError")
    ELSE IF dist + 1 <= 0 THEN Error("ValueError")
    ELSE IF reg1 # reg2
         THEN Ok(<<p_cost(dist), p_score(dist), "PLANE">>)
    ELSE IF t_score(dist) < p_score(dist)
         THEN Ok(<<t_cost(dist), t_score(dist), "TRUCK">>)
         ELSE Ok(<<p_cost(dist), p_score(dist), "PLANE">>)

\* get_metrics: (cost, score, mode); t_score divides by the normaliser
\* (ZeroDivisionError), math.log rejects dist + 1 <= 0 (ValueError)
get_metrics(dist, reg1, reg2) ==
    IF params.COST_NORMALIZER = 0 THEN Error("ZeroDivisionError")
    ELSE IF dist + 1 <= 0 THEN Error("ValueError")
    ELSE IF reg1 # reg2
         THEN Ok(<<p_cost(dist), p_score(dist), "PLANE">>)
    ELSE IF t_score(dist) <= p_score(dist)
         THEN Ok(<<t_cost(dist), t_score(dist), "TRUCK">>)
         ELSE Ok(<<p_cost(dist), p_score(dist), "PLANE">>)

-----------------------------------------------------------------------------
(* Calls of the cost models on arbitrary arguments *)

NoCall == [fn |-> "none"]

NoAcc == [modes_used |-> <<>>, total_dist |-> 0, total_cost |-> 0, t_count |-> 0,
          p_count |-> 0]

\* the factors interactive_eco_setup may return
FactorSettings == [{"truck", "ship", "plane"} -> {6, 10, 30}]

\* the parameters interactive_setup may return
ParamSettings ==
    [W_DIST : {0, 5}, W_COST : {0, 5}, COST_NORMALIZER : {0, 500},
     P_SPEED_MULT : {15}, P_FIX : {0, 250000}, P_VAR : {0, 80},
     T_FIX : {2000, 250000}, T_VAR : {3}]

Regions == {"Europe", "Asia"}

\* distances of single calls: negative, zero, small, around max_truck_distance, long
CostDistances ==
    (-1..MaxDist)
    \cup {100, max_truck_distance - 100, max_truck_distance - 1, max_truck_distance,
          max_truck_distance + 1, 2500}

\* entries of the matrices given to build_cost_matrix
MatrixDistances == {-1, 0, max_truck_distance - 100, max_truck_distance + 1}

\* square matrices over one or two labels of the file
SmallMatrices ==
    UNION {[K \X K -> MatrixDistances] :
              K \in {L \in SUBSET FileLabels : Cardinality(L) \in {1, 2}}}

IdleTsp ==
    /\ D = <<>> /\ nodes = <<>> /\ roundtrip = FALSE /\ tour = <<>>
    /\ unvisited = <<>> /\ cur = NoLabel /\ total = 0 /\ acc = NoAcc /\ result = None
    /\ run = 1 /\ first = None
    /\ D_file = <<>> /\ report = None

InitCost ==
    /\ \/ script = "eco_model" /\ FACTORS \in FactorSettings /\ params = DefaultParams
       \/ script = "economic_model" /\ FACTORS = DefaultFactors /\ params \in ParamSettings
    /\ pc = "ready"
    /\ call = NoCall
    /\ ret = None
    /\ IdleTsp

CallAllowedModes ==
    /\ script = "eco_model"
    /\ pc = "ready"
    /\ pc' = "returned"
    /\ \E a, b \in FileLabels, distance \in CostDistances :
          /\ call' = [fn |-> "allowed_modes", a |-> a, b |-> b, distance |-> distance]
          /\ ret' = allowed_modes(a, b, distance)
    /\ UNCHANGED <<script, cfgVars, tspVars, scriptVars>>

CallTransportCost ==
    /\ script = "eco_model"
    /\ pc = "ready"
    /\ pc' = "returned"
    /\ \E a, b \in FileLabels, distance \in CostDistances :
          /\ call' = [fn |-> "transport_cost", a |-> a, b |-> b, distance |-> distance]
          /\ ret' = transport_cost(a, b, distance)
    /\ UNCHANGED <<script, cfgVars, tspVars, scriptVars>>

CallTransportCostWithMode ==
    /\ script = "eco_model"
    /\ pc = "ready"
    /\ pc' = "returned"
    /\ \E a, b \in FileLabels, distance \in CostDistances :
          /\ call' = [fn |-> "transport_cost_with_mode", a |-> a, b |-> b,
                      distance |-> distance]
          /\ ret' = transport_cost_with_mode(a, b, distance)
    /\ UNCHANGED <<script, cfgVars, tspVars, scriptVars>>

CallBuildCostMatrix ==
    /\ script = "eco_model"
    /\ pc = "ready"
    /\ pc' = "returned"
    /\ \E M \in SmallMatrices :
          /\ call' = [fn |-> "build_cost_matrix", distance_matrix |-> M,
                      after |-> distance_matrix_after(M)]
          /\ ret' = build_cost_matrix(M)
    /\ UNCHANGED <<script, cfgVars, tspVars, scriptVars>>

CallGetMetrics ==
    /\ script = "economic_model"
    /\ pc = "ready"
    /\ pc' = "returned"
    /\ \E dist \in CostDistances, reg1, reg2 \in Regions :
          /\ call' = [fn |-> "get_metrics", dist |-> dist, reg1 |-> reg1, reg2 |-> reg2]
          /\ ret' = get_metrics(dist, reg1, reg2)
    /\ UNCHANGED <<script, cfgVars, tspVars, scriptVars>>

\* the open and closed tours through every label of a matrix of one or two
\* labels
SmallTours(M) ==
    IF Cardinality(Index(M)) = 1
    THEN {<<a>> : a \in Index(M)} \cup {<<a, a>> : a \in Index(M)}
    ELSE {<<p[1], p[2]>> : p \in {q \in DOMAIN M : q[1] # q[2]}}
         \cup {<<p[1], p[2], p[1]>> : p \in {q \in DOMAIN M : q[1] # q[2]}}

\* distance matrices as a file holds them: 0 from a label to itself
ZeroDiagonal(M) == \A a \in Index(M) : M[<<a, a>>] = 0

CallAnalyzeTransportModes ==
    /\ script = "eco_model"
    /\ pc = "ready"
    /\ pc' = "returned"
    /\ \E M \in {X \in SmallMatrices : ZeroDiagonal(X)} : \E path \in SmallTours(M) :
          /\ call' = [fn |-> "analyze_transport_modes", path |-> path, distances |-> M]
          /\ ret' = analyze_transport_modes(path, M)
    /\ UNCHANGED <<script, cfgVars, tspVars, scriptVars>>

\* the same path is analysed again after interactive_eco_setup has been
\* given a higher plane factor, the truck and ship factors as before
AnalyzeWithRaisedPlane ==
    /\ script = "eco_model"
    /\ pc = "returned"
    /\ call.fn = "analyze_transport_modes"
    /\ ~IsError(ret)
    /\ run = 1
    /\ \E plane \in {f["plane"] : f \in FactorSettings} :
          /\ plane > FACTORS["plane"]
          /\ FACTORS' = [FACTORS EXCEPT !["plane"] = plane]
    /\ first' = [edges |-> ret.value.edges,
                 total |-> weighted_total(call.path, call.distances)]
    /\ run' = 2
    /\ UNCHANGED <<script, pc, params, D, nodes, roundtrip, tour, unvisited, cur, total,
                   acc, result, call, scriptVars>>
    /\ ret' = analyze_transport_modes(call.path, call.distances)'

NextCost ==
    \/ CallAnalyzeTransportModes
    \/ AnalyzeWithRaisedPlane
    \/ CallAllowedModes
    \/ CallTransportCost
    \/ CallTransportCostWithMode
    \/ CallBuildCostMatrix
    \/ CallGetMetrics

SpecCost == InitCost /\ [][NextCost]_vars

-----------------------------------------------------------------------------
(* The heuristics, called on arbitrary inputs *)

NearestNeighbour ==
    {"nearest_neighbour_initial_situation", "Eco_NN_main", "time_cost_multimodel_NN"}

Insertion ==
    {"insertion_heuristic_initial_situation", "Eco_SI_main", "time_cost_multimodel_IH"}

\* the Region column of the economic scripts' data file, per label
regions_map == <<"Europe", "Asia", "Europe", "Asia">>

\* get_metrics on the edge (a, b) of the economic scripts: (cost, score, mode)
EdgeMetrics(a, b) == get_metrics(D[<<a, b>>], regions_map[a], regions_map[b]).value

\* what no action of a heuristic changes
Frame == UNCHANGED <<script, cfgVars, D, nodes, roundtrip, run, first, costVars, scriptVars>>

\* ---- Nearest Neighbour ----

nn_next_sorted_first(c, unv) == Sorted(Range(unv))[1]

\* nearest_neighbour_initial_situation.nn_tsp: the candidates are sorted,
\* idxmin takes the first of the least
nn_next_sorted(c, unv) ==
    LET candidates == Sorted(Range(unv))
    IN  candidates[FirstMin([i \in DOMAIN candidates |-> D[<<c, candidates[i]>>]])]

\* Eco_NN_main.nn_tsp: idxmin over list(unvisited), in the set's iteration order
nn_next_listed(c, unv) == unv[FirstMin([i \in DOMAIN unv |-> D[<<c, unv[i]>>]])]

nn_next_by_cost(c, unv) == unv[FirstMin([i \in DOMAIN unv |-> EdgeMetrics(c, unv[i])[1]])]

\* time_cost_multimodel_NN.nn_tsp: the scan "if s < min_score" over the list
nn_next_scored(c, unv) == unv[FirstMin([i \in DOMAIN unv |-> EdgeMetrics(c, unv[i])[2]])]

nn_close_always(path) == Append(path, nodes[1])

\* "if roundtrip: path.append(nodes[0])"
nn_close(path) == IF roundtrip THEN Append(path, nodes[1]) ELSE path

\* nearest_neighbour_initial_situation.nn_tsp, lines 48-53. The set is kept
\* sorted: its iteration order is never read (line 58 sorts it).
NNI_Start ==
    /\ script = "nearest_neighbour_initial_situation"
    /\ pc = "start"
    /\ IF nodes = <<>>
       THEN /\ result' = Error("IndexError")
            /\ pc' = "done"
            /\ UNCHANGED <<tour, unvisited, cur, total>>
       ELSE /\ unvisited' = Sorted(Range(Tail(nodes)))
            /\ tour' = <<nodes[1]>>
            /\ total' = 0
            /\ cur' = nodes[1]
            /\ pc' = "loop"
            /\ UNCHANGED result
    /\ UNCHANGED acc
    /\ Frame

\* one iteration of "while unvisited", lines 56-67
NNI_Step ==
    /\ script = "nearest_neighbour_initial_situation"
    /\ pc = "loop"
    /\ unvisited # <<>>
    /\ LET nxt == nn_next_sorted(cur, unvisited)
       IN  /\ total' = total + D[<<cur, nxt>>]
           /\ tour' = Append(tour, nxt)
           /\ unvisited' = Remove(unvisited, nxt)
           /\ cur' = nxt
    /\ UNCHANGED <<pc, acc, result>>
    /\ Frame

\* lines 70-74
NNI_Return ==
    /\ script = "nearest_neighbour_initial_situation"
    /\ pc = "loop"
    /\ unvisited = <<>>
    /\ total' = IF roundtrip THEN total + D[<<cur, nodes[1]>>] ELSE total
    /\ tour' = nn_close(tour)
    /\ result' = Ok(<<tour', total'>>)
    /\ pc' = "done"
    /\ UNCHANGED <<unvisited, cur, acc>>
    /\ Frame

\* Eco_NN_main.nn_tsp, lines 42-45: the set takes some iteration order
NNE_Start ==
    /\ script = "Eco_NN_main"
    /\ pc = "start"
    /\ IF nodes = <<>>
       THEN /\ result' = Error("IndexError")
            /\ pc' = "done"
            /\ UNCHANGED <<tour, unvisited, cur, total>>
       ELSE /\ unvisited' \in Perms(Range(Tail(nodes)))
            /\ tour' = <<nodes[1]>>
            /\ total' = 0
            /\ cur' = nodes[1]
            /\ pc' = "loop"
            /\ UNCHANGED result
    /\ UNCHANGED acc
    /\ Frame

\* one iteration of "while unvisited", lines 46-51
NNE_Step ==
    /\ script = "Eco_NN_main"
    /\ pc = "loop"
    /\ unvisited # <<>>
    /\ LET nxt == nn_next_listed(cur, unvisited)
       IN  /\ total' = total + D[<<cur, nxt>>]
           /\ tour' = Append(tour, nxt)
           /\ unvisited' = Remove(unvisited, nxt)
           /\ cur' = nxt
    /\ UNCHANGED <<pc, acc, result>>
    /\ Frame

\* lines 52-55
NNE_Return ==
    /\ script = "Eco_NN_main"
    /\ pc = "loop"
    /\ unvisited = <<>>
    /\ total' = IF roundtrip THEN total + D[<<cur, nodes[1]>>] ELSE total
    /\ tour' = nn_close(tour)
    /\ result' = Ok(<<tour', total'>>)
    /\ pc' = "done"
    /\ UNCHANGED <<unvisited, cur, acc>>
    /\ Frame

\* the totals and counts after one more leg
AddLeg(a, dist, cost, mode) ==
    [modes_used |-> Append(a.modes_used, mode),
     total_dist |-> a.total_dist + dist,
     total_cost |-> a.total_cost + cost,
     t_count |-> IF mode = "PLANE" THEN a.t_count ELSE a.t_count + 1,
     p_count |-> IF mode = "PLANE" THEN a.p_count + 1 ELSE a.p_count]

\* time_cost_multimodel_NN.nn_tsp, lines 106-111: unvisited is a list
NNT_Start ==
    /\ script = "time_cost_multimodel_NN"
    /\ pc = "start"
    /\ IF nodes = <<>>
       THEN /\ result' = Error("IndexError")
            /\ pc' = "done"
            /\ UNCHANGED <<tour, unvisited, cur, acc>>
       ELSE /\ unvisited' = Tail(nodes)
            /\ tour' = <<nodes[1]>>
            /\ acc' = NoAcc
            /\ cur' = nodes[1]
            /\ pc' = "loop"
            /\ UNCHANGED result
    /\ UNCHANGED total
    /\ Frame

\* one iteration of "while unvisited", lines 113-131
NNT_Step ==
    /\ script = "time_cost_multimodel_NN"
    /\ pc = "loop"
    /\ unvisited # <<>>
    /\ LET best_next == nn_next_scored(cur, unvisited)
           step == EdgeMetrics(cur, best_next)
       IN  /\ acc' = AddLeg(acc, D[<<cur, best_next>>], step[1], step[3])
           /\ tour' = Append(tour, best_next)
           /\ unvisited' = Remove(unvisited, best_next)
           /\ cur' = best_next
    /\ UNCHANGED <<pc, total, result>>
    /\ Frame

\* lines 134-144
NNT_Return ==
    /\ script = "time_cost_multimodel_NN"
    /\ pc = "loop"
    /\ unvisited = <<>>
    /\ acc' = IF roundtrip
              THEN LET m == EdgeMetrics(cur, nodes[1])
                   IN  AddLeg(acc, D[<<cur, nodes[1]>>], m[1], m[3])
              ELSE acc
    /\ tour' = nn_close(tour)
    /\ result' = Ok(<<tour', acc'.modes_used, acc'.total_dist, acc'.total_cost,
                     acc'.t_count, acc'.p_count>>)
    /\ pc' = "done"
    /\ UNCHANGED <<unvisited, cur, total>>
    /\ Frame

\* ---- Insertion ----

path_length_but_last(path) ==
    Sum([i \in 1..(Len(path) - 2) |-> D[<<path[i], path[i + 1]>>]])

\* path_length: the sum over the consecutive legs
path_length(path) == Sum([i \in 1..(Len(path) - 1) |-> D[<<path[i], path[i + 1]>>]])

\* the (x, i) pairs in the order the two nested loops visit them:
\* "for x in unvisited: for i in range(len(tour) - 1)"
Scan(unv, t) ==
    [k \in 1..(Len(unv) * (Len(t) - 1)) |->
        <<unv[((k - 1) \div (Len(t) - 1)) + 1], (k - 1) % (Len(t) - 1)>>]

\* delta of inserting x after position i (from 0) of tour t, on the matrix
delta_cost(t, x, i) == D[<<t[i + 1], x>>] + D[<<x, t[i + 2]>>] - D[<<t[i + 1], t[i + 2]>>]

\* delta of inserting x after position i (from 0) of tour t, on the scores
delta_score(t, x, i) ==
    EdgeMetrics(t[i + 1], x)[2] + EdgeMetrics(x, t[i + 2])[2]
    - EdgeMetrics(t[i + 1], t[i + 2])[2]

\* cheapest_insertion_tsp, line 111: idxmin over the others in list order
ci_second(start, others) ==
    others[FirstMin([i \in DOMAIN others |-> D[<<start, others[i]>>]])]

ci_best_append(unv, t) == <<unv[1], Len(t) - 1>>

ci_best_before(unv, t) ==
    LET scan == Scan(unv, t)
        k == FirstMin([j \in DOMAIN scan |-> delta_cost(t, scan[j][1], scan[j][2])])
    IN  <<scan[k][1], scan[k][2]>>

\* cheapest_insertion_tsp, lines 125-141: (best_x, best_pos)
ci_best(unv, t) ==
    LET scan == Scan(unv, t)
        k == FirstMin([j \in DOMAIN scan |-> delta_cost(t, scan[j][1], scan[j][2])])
    IN  <<scan[k][1], scan[k][2] + 1>>

ci_open_closed(t) == t

ci_open_backwards(t) ==
    LET best_break_i == FirstMin([i \in 1..(Len(t) - 1) |-> D[<<t[i], t[i + 1]>>]]) - 1
        cycle_nodes == SubSeq(t, 1, Len(t) - 1)
        open_path == SubSeq(cycle_nodes, best_break_i + 2, Len(cycle_nodes))
                     \o SubSeq(cycle_nodes, 1, best_break_i + 1)
    IN  [i \in 1..Len(open_path) |-> open_path[Len(open_path) + 1 - i]]

\* cheapest_insertion_tsp, lines 155-169: the cycle opened at its first
\* cheapest edge
ci_open(t) ==
    LET best_break_i == FirstMin([i \in 1..(Len(t) - 1) |-> D[<<t[i], t[i + 1]>>]]) - 1
        cycle_nodes == SubSeq(t, 1, Len(t) - 1)
    IN  SubSeq(cycle_nodes, best_break_i + 2, Len(cycle_nodes))
        \o SubSeq(cycle_nodes, 1, best_break_i + 1)

\* cheapest_insertion_tsp, lines 96-119: the set takes some iteration order
CII_Start ==
    /\ script = "insertion_heuristic_initial_situation"
    /\ pc = "start"
    /\ IF Len(nodes) < 2
       THEN /\ result' = Error("ValueError")
            /\ pc' = "done"
            /\ UNCHANGED <<tour, unvisited>>
       ELSE LET start == nodes[1]
                others == Filter(nodes, Range(nodes) \ {start})
                second == ci_second(start, others)
            IN  /\ tour' = <<start, second, start>>
                /\ unvisited' \in Perms(Range(nodes) \ {start, second})
                /\ pc' = "loop"
                /\ UNCHANGED result
    /\ UNCHANGED <<cur, total, acc>>
    /\ Frame

\* one iteration of "while unvisited", lines 124-145
CII_Insert ==
    /\ script = "insertion_heuristic_initial_situation"
    /\ pc = "loop"
    /\ unvisited # <<>>
    /\ LET best == ci_best(unvisited, tour)
       IN  /\ tour' = Insert(tour, best[2], best[1])
           /\ unvisited' = Remove(unvisited, best[1])
    /\ UNCHANGED <<pc, cur, total, acc, result>>
    /\ Frame

\* lines 148-171
CII_Return ==
    /\ script = "insertion_heuristic_initial_situation"
    /\ pc = "loop"
    /\ unvisited = <<>>
    /\ tour' = IF roundtrip THEN tour ELSE ci_open(tour)
    /\ total' = path_length(tour')
    /\ result' = Ok(<<tour', total'>>)
    /\ pc' = "done"
    /\ UNCHANGED <<unvisited, cur, acc>>
    /\ Frame

\* si_tsp, lines 53-61: the position (from 0) at which k is inserted
si_best_pos(k, t) == FirstMin([i \in 1..(Len(t) - 1) |-> delta_cost(t, k, i - 1)])

\* Eco_SI_main.si_tsp, line 42; unvisited holds what "for k in nodes[2:]"
\* has yet to visit
SIE_Start ==
    /\ script = "Eco_SI_main"
    /\ pc = "start"
    /\ IF Len(nodes) < 2
       THEN /\ result' = Error("IndexError")
            /\ pc' = "done"
            /\ UNCHANGED <<tour, unvisited>>
       ELSE /\ tour' = <<nodes[1], nodes[2], nodes[1]>>
            /\ unvisited' = SubSeq(nodes, 3, Len(nodes))
            /\ pc' = "loop"
            /\ UNCHANGED result
    /\ UNCHANGED <<cur, total, acc>>
    /\ Frame

\* one iteration of "for k in nodes[2:]", lines 44-63
SIE_Insert ==
    /\ script = "Eco_SI_main"
    /\ pc = "loop"
    /\ unvisited # <<>>
    /\ LET k == Head(unvisited)
       IN  /\ tour' = Insert(tour, si_best_pos(k, tour), k)
           /\ unvisited' = Tail(unvisited)
    /\ UNCHANGED <<pc, cur, total, acc, result>>
    /\ Frame

\* lines 65-73
SIE_Return ==
    /\ script = "Eco_SI_main"
    /\ pc = "loop"
    /\ unvisited = <<>>
    /\ tour' = IF roundtrip THEN tour ELSE SubSeq(tour, 1, Len(tour) - 1)
    /\ total' = path_length(tour')
    /\ result' = Ok(<<tour', total'>>)
    /\ pc' = "done"
    /\ UNCHANGED <<unvisited, cur, acc>>
    /\ Frame

\* insertion_tsp, lines 111-117: the scan "if s < min_init_score" over the
\* others; None when there are none
it_second(start, others) ==
    IF others = <<>> THEN NoLabel
    ELSE others[FirstMin([i \in DOMAIN others |-> EdgeMetrics(start, others[i])[2]])]

\* insertion_tsp, lines 124-138: (best_city, best_pos)
it_best(unv, t) ==
    LET scan == Scan(unv, t)
        k == FirstMin([j \in DOMAIN scan |-> delta_score(t, scan[j][1], scan[j][2])])
    IN  <<scan[k][1], scan[k][2] + 1>>

\* insertion_tsp, lines 146-154: the cycle opened at its first edge of least score
it_open(t) ==
    LET best_break_i ==
            FirstMin([i \in 1..(Len(t) - 1) |-> EdgeMetrics(t[i], t[i + 1])[2]]) - 1
        cycle_nodes == SubSeq(t, 1, Len(t) - 1)
    IN  SubSeq(cycle_nodes, best_break_i + 2, Len(cycle_nodes))
        \o SubSeq(cycle_nodes, 1, best_break_i + 1)

\* time_cost_multimodel_IH.insertion_tsp, lines 108-120: no check of the
\* length; unvisited is a list
CIT_Start ==
    /\ script = "time_cost_multimodel_IH"
    /\ pc = "start"
    /\ IF nodes = <<>>
       THEN /\ result' = Error("IndexError")
            /\ pc' = "done"
            /\ UNCHANGED <<tour, unvisited>>
       ELSE LET start == nodes[1]
                others == Filter(nodes, Range(nodes) \ {start})
                best_init_neighbor == it_second(start, others)
            IN  /\ tour' = <<start, best_init_neighbor, start>>
                /\ unvisited' = Filter(nodes, Range(nodes) \ {start, best_init_neighbor})
                /\ pc' = "loop"
                /\ UNCHANGED result
    /\ UNCHANGED <<cur, total, acc>>
    /\ Frame

\* one iteration of "while unvisited", lines 123-141
CIT_Insert ==
    /\ script = "time_cost_multimodel_IH"
    /\ pc = "loop"
    /\ unvisited # <<>>
    /\ LET best == it_best(unvisited, tour)
       IN  /\ tour' = Insert(tour, best[2], best[1])
           /\ unvisited' = Remove(unvisited, best[1])
    /\ UNCHANGED <<pc, cur, total, acc, result>>
    /\ Frame

\* lines 145-156: D.loc raises KeyError on the label None
CIT_Return ==
    /\ script = "time_cost_multimodel_IH"
    /\ pc = "loop"
    /\ unvisited = <<>>
    /\ IF ~roundtrip /\ NoLabel \in Range(tour)
       THEN /\ result' = Error("KeyError")
            /\ UNCHANGED tour
       ELSE /\ tour' = IF roundtrip THEN tour ELSE it_open(tour)
            /\ result' = Ok(tour')
    /\ pc' = "done"
    /\ UNCHANGED <<unvisited, cur, total, acc>>
    /\ Frame

\* ---- Inputs ----

\* the pairs of a matrix over 1..n that are drawn freely: all pairs off the
\* diagonal, and only those above it when the matrix is over all the labels
\* (those matrices are symmetric)
FreePairs(n) ==
    {p \in (1..n) \X (1..n) :
        IF n = Cardinality(Labels) THEN p[1] < p[2] ELSE p[1] # p[2]}

\* the matrices over the labels 1..n: 0 on the diagonal, 1..MaxDist elsewhere
Matrices(n) ==
    {[p \in (1..n) \X (1..n) |->
         IF p[1] = p[2] THEN 0
         ELSE IF p \in FreePairs(n) THEN f[p] ELSE f[<<p[2], p[1]>>]] :
        f \in [FreePairs(n) -> 1..MaxDist]}

\* a matrix of short hops between the regions and long legs within them: 100
\* km between two labels of different regions, 900 km between two of the same
ShortHops(n) ==
    {[p \in (1..n) \X (1..n) |->
         IF p[1] = p[2] THEN 0
         ELSE IF regions_map[p[1]] # regions_map[p[2]] THEN 100 ELSE 900]}

IdleCost == call = NoCall /\ ret = None

IdleScript == D_file = <<>> /\ report = None

InitTsp ==
    /\ script \in NearestNeighbour \cup Insertion
    /\ pc = "start"
    /\ FACTORS = DefaultFactors
    /\ params = DefaultParams
    /\ \E n \in 0..Cardinality(Labels) :
          /\ nodes \in Perms(1..n)
          /\ D \in Matrices(n) \cup ShortHops(n)
    /\ roundtrip \in BOOLEAN
    /\ tour = <<>> /\ unvisited = <<>> /\ cur = NoLabel /\ total = 0 /\ acc = NoAcc
    /\ result = None /\ run = 1 /\ first = None
    /\ IdleCost
    /\ IdleScript

\* the same heuristic is called again on the same inputs
Rerun ==
    /\ pc = "done"
    /\ run = 1
    /\ run' = 2
    /\ first' = result
    /\ pc' = "start"
    /\ tour' = <<>> /\ unvisited' = <<>> /\ cur' = NoLabel /\ total' = 0 /\ acc' = NoAcc
    /\ result' = None
    /\ UNCHANGED <<script, cfgVars, D, nodes, roundtrip, costVars, scriptVars>>

Next ==
    \/ NNI_Start \/ NNI_Step \/ NNI_Return
    \/ NNE_Start \/ NNE_Step \/ NNE_Return
    \/ NNT_Start \/ NNT_Step \/ NNT_Return
    \/ CII_Start \/ CII_Insert \/ CII_Return
    \/ SIE_Start \/ SIE_Insert \/ SIE_Return
    \/ CIT_Start \/ CIT_Insert \/ CIT_Return

Spec == InitTsp /\ [][Next]_vars

SpecRerun == InitTsp /\ [][Next \/ Rerun]_vars

\* the matrices over 1..n whose entries off the diagonal are all equal: every
\* comparison of a heuristic is a tie
TieMatrices(n) ==
    {[p \in (1..n) \X (1..n) |-> IF p[1] = p[2] THEN 0 ELSE d] : d \in 1..MaxDist}

\* the calls on a matrix of ties or of short hops
InitLive ==
    /\ InitTsp
    /\ D \in TieMatrices(Len(nodes)) \cup ShortHops(Len(nodes))

\* a heuristic is one call of a single-threaded program: once called it runs
\* on, statement after statement, until it returns or raises
SpecLive == InitLive /\ [][Next]_vars /\ WF_vars(Next)

-----------------------------------------------------------------------------
(* The example instance of four nodes, solved by Nearest Neighbour and then
   by Cheapest Insertion. The nodes 0, 1, 2, 3 are the labels 1, 2, 3, 4. *)

ExampleRows == <<<<0, 10, 15, 20>>, <<10, 0, 35, 25>>, <<15, 35, 0, 30>>, <<20, 25, 30, 0>>>>

ExampleMatrix == [p \in (DOMAIN ExampleRows) \X (DOMAIN ExampleRows) |-> ExampleRows[p[1]][p[2]]]

\* the scripts whose heuristic works on the matrix alone
MatrixNearestNeighbour == {"nearest_neighbour_initial_situation", "Eco_NN_main"}

MatrixInsertion == {"insertion_heuristic_initial_situation", "Eco_SI_main"}

InitExample ==
    /\ script \in MatrixNearestNeighbour
    /\ pc = "start"
    /\ FACTORS = DefaultFactors
    /\ params = DefaultParams
    /\ D = ExampleMatrix
    /\ nodes \in Perms(DOMAIN ExampleRows)
    /\ roundtrip \in BOOLEAN
    /\ tour = <<>> /\ unvisited = <<>> /\ cur = NoLabel /\ total = 0 /\ acc = NoAcc
    /\ result = None /\ run = 1 /\ first = None
    /\ IdleCost
    /\ IdleScript

\* the instance Nearest Neighbour has solved is given to an insertion heuristic
ThenInsertion ==
    /\ script \in MatrixNearestNeighbour
    /\ pc = "done"
    /\ run = 1
    /\ script' \in MatrixInsertion
    /\ run' = 2
    /\ first' = result
    /\ pc' = "start"
    /\ tour' = <<>> /\ unvisited' = <<>> /\ cur' = NoLabel /\ total' = 0 /\ acc' = NoAcc
    /\ result' = None
    /\ UNCHANGED <<cfgVars, D, nodes, roundtrip, costVars, scriptVars>>

NextExample ==
    \/ NNI_Start \/ NNI_Step \/ NNI_Return
    \/ NNE_Start \/ NNE_Step \/ NNE_Return
    \/ ThenInsertion
    \/ CII_Start \/ CII_Insert \/ CII_Return
    \/ SIE_Start \/ SIE_Insert \/ SIE_Return

SpecExample == InitExample /\ [][NextExample]_vars

-----------------------------------------------------------------------------
(* The eco scripts from the selection to the heuristic's result:
   Eco_NN_main.py and Eco_SI_main.py, module body *)

MaxSelect == 3

EcoScripts == {"Eco_NN_main", "Eco_SI_main"}

\* the distances of the loaded file: one below and one above the truck range
FileDistances == {max_truck_distance - 100, max_truck_distance + 1}

\* the distances a file holds between the labels 1, 2, ... apart: in
\* FileDistances, or negative throughout (no distance of the file is checked)
FileProfiles ==
    [1..(Cardinality(FileLabels) - 1) -> FileDistances]
    \cup {[k \in 1..(Cardinality(FileLabels) - 1) |-> -1]}

\* load_distance_matrix: a symmetric matrix over the labels of the file, its
\* entry a function of the distance between the two labels' numbers
FileMatrices ==
    {[p \in FileLabels \X FileLabels |->
         IF p[1] = p[2] THEN 0
         ELSE d[IF p[1] < p[2] THEN p[2] - p[1] ELSE p[1] - p[2]]] :
        d \in FileProfiles}

\* build_circuit_index: the names of the file in the order of its index
names == [i \in FileLabels |-> i]

\* what interactive_eco_setup returns: the defaults, or three equal factors
EcoFactorSettings == {DefaultFactors, [m \in {"truck", "ship", "plane"} |-> 10]}

\* the lists select_circuits returns on answers that name no circuit twice:
\* all the names, or up to MaxSelect of them in the order given
Selections ==
    {names} \cup UNION {Perms(K) : K \in {L \in SUBSET FileLabels : Cardinality(L) <= MaxSelect}}

\* D.loc[nodes, nodes]
Loc(M, rows) == [p \in Range(rows) \X Range(rows) |-> M[p]]

InitEco ==
    /\ script \in EcoScripts
    /\ pc = "select"
    /\ FACTORS \in EcoFactorSettings
    /\ params = DefaultParams
    /\ D_file \in FileMatrices
    /\ D = <<>>
    /\ nodes = <<>>
    /\ roundtrip \in BOOLEAN
    /\ tour = <<>> /\ unvisited = <<>> /\ cur = NoLabel /\ total = 0 /\ acc = NoAcc
    /\ result = None /\ run = 1 /\ first = None
    /\ IdleCost
    /\ report = None

\* nodes = select_circuits(names, num_to_name)
EcoSelect ==
    /\ script \in EcoScripts
    /\ pc = "select"
    /\ nodes' \in Selections
    /\ pc' = "build"
    /\ UNCHANGED <<script, cfgVars, D, roundtrip, tour, unvisited, cur, total, acc,
                   result, run, first, costVars, scriptVars>>

\* sub = tm.build_cost_matrix(D.loc[nodes, nodes]); the heuristic is then
\* called on sub, its parameter D
EcoBuild ==
    /\ script \in EcoScripts
    /\ pc = "build"
    /\ call' = [fn |-> "build_cost_matrix", distance_matrix |-> Loc(D_file, nodes),
                after |-> distance_matrix_after(Loc(D_file, nodes))]
    /\ ret' = build_cost_matrix(Loc(D_file, nodes))
    /\ IF IsError(ret')
       THEN /\ result' = ret'
            /\ pc' = "done"
            /\ UNCHANGED D
       ELSE /\ D' = ret'.value
            /\ pc' = "start"
            /\ UNCHANGED result
    /\ UNCHANGED <<script, cfgVars, nodes, roundtrip, tour, unvisited, cur, total, acc,
                   run, first, scriptVars>>

\* the loop "pure_distance += float(D.loc[path[i], path[i + 1]])"
pure_distance(path, distances) ==
    Sum([i \in 1..(Len(path) - 1) |-> distances[<<path[i], path[i + 1]>>]])

\* report_results, line 132: avg_factor as the fraction num / den, total_cost
\* (and so num) in tenths
report_results(path, distance, total_cost, stats) ==
    IF distance > 0 THEN [num |-> total_cost, den |-> distance]
    ELSE [num |-> 0, den |-> 1]

\* the module body after the heuristic has returned: pure_distance and
\* edges, stats = analyze_transport_modes(path, D, tm)
EcoAnalyze ==
    /\ script \in EcoScripts
    /\ pc = "done"
    /\ ~IsError(result)
    /\ LET path == result.value[1]
           analysis == analyze_transport_modes(path, D_file)
       IN  report' = IF IsError(analysis) THEN analysis
                     ELSE Ok([pure_distance |-> pure_distance(path, D_file),
                              edges |-> analysis.value.edges,
                              stats |-> analysis.value.stats,
                              avg_factor |-> None])
    /\ pc' = "analyzed"
    /\ UNCHANGED <<script, cfgVars, tspVars, costVars, D_file>>

\* report_results(path, pure_distance, total, stats)
EcoReport ==
    /\ script \in EcoScripts
    /\ pc = "analyzed"
    /\ ~IsError(report)
    /\ report' = Ok([report.value EXCEPT !.avg_factor =
                        report_results(result.value[1], report.value.pure_distance,
                                       result.value[2], report.value.stats)])
    /\ pc' = "reported"
    /\ UNCHANGED <<script, cfgVars, tspVars, costVars, D_file>>

NextEco ==
    \/ EcoSelect \/ EcoBuild
    \/ NNE_Start \/ NNE_Step \/ NNE_Return
    \/ SIE_Start \/ SIE_Insert \/ SIE_Return
    \/ EcoAnalyze \/ EcoReport

SpecEco == InitEco /\ [][NextEco]_vars

-----------------------------------------------------------------------------
(* The economic scripts from the selection to the report:
   time_cost_multimodel_NN.py and time_cost_multimodel_IH.py, module body *)

EconomicScripts == {"time_cost_multimodel_NN", "time_cost_multimodel_IH"}

\* the labels of the economic scripts' file: the rows, each with its Region
EconomicLabels == DOMAIN regions_map

\* names = list(D.index)
economic_names == [i \in EconomicLabels |-> i]

\* the file's matrix: symmetric, its entry a function of the distance
\* between the two labels' numbers
EconomicFileMatrices ==
    {[p \in EconomicLabels \X EconomicLabels |->
         IF p[1] = p[2] THEN 0
         ELSE d[IF p[1] < p[2] THEN p[2] - p[1] ELSE p[1] - p[2]]] :
        d \in [1..(Len(regions_map) - 1) -> FileDistances]}

\* the integers answered to "Circuit i:": from -1 to one past the last number
CircuitAnswers == (-1)..(Len(economic_names) + 1)

\* names[int(input(...)) - 1]: a negative index counts from the end of the
\* list, an index outside the list raises IndexError
names_at(k) ==
    IF k \in 1..Len(economic_names) THEN Ok(economic_names[k])
    ELSE IF k \in (1 - Len(economic_names))..0 THEN Ok(economic_names[Len(economic_names) + k])
    ELSE Error("IndexError")

InitEconomic ==
    /\ script \in EconomicScripts
    /\ pc = "select"
    /\ FACTORS = DefaultFactors
    /\ params = DefaultParams
    /\ D \in EconomicFileMatrices
    /\ nodes = <<>>
    /\ roundtrip \in BOOLEAN
    /\ tour = <<>> /\ unvisited = <<>> /\ cur = NoLabel /\ total = 0 /\ acc = NoAcc
    /\ result = None /\ run = 1 /\ first = None
    /\ IdleCost
    /\ IdleScript

\* the selection of the module body: 'all', or n answers; sys.exit() on an
\* answer outside the list
EconomicSelect ==
    /\ script \in EconomicScripts
    /\ pc = "select"
    /\ \/ /\ nodes' = economic_names
          /\ pc' = "start"
       \/ \E n \in 0..MaxSelect : \E answers \in [1..n -> CircuitAnswers] :
             IF \E i \in 1..n : IsError(names_at(answers[i]))
             THEN /\ pc' = "exit"
                  /\ UNCHANGED nodes
             ELSE /\ nodes' = [i \in 1..n |-> names_at(answers[i]).value]
                  /\ pc' = "start"
    /\ UNCHANGED <<script, cfgVars, D, roundtrip, tour, unvisited, cur, total, acc,
                   result, run, first, costVars, scriptVars>>

\* the loop of ROUTE DETAILS from leg i on: total_d, total_c, tc_n, pc_n and
\* the modes printed
RECURSIVE RouteDetailsFrom(_, _, _)
RouteDetailsFrom(res_path, i, a) ==
    IF i > Len(res_path) - 1 THEN a
    ELSE LET m == EdgeMetrics(res_path[i], res_path[i + 1])
         IN  RouteDetailsFrom(res_path, i + 1,
                              AddLeg(a, D[<<res_path[i], res_path[i + 1]>>], m[1], m[3]))

\* time_cost_multimodel_IH.py, lines 201-210; D.loc raises KeyError on the
\* label None
EconomicReport ==
    /\ script = "time_cost_multimodel_IH"
    /\ pc = "done"
    /\ ~IsError(result)
    /\ report' = IF NoLabel \in Range(result.value) THEN Error("KeyError")
                 ELSE Ok(RouteDetailsFrom(result.value, 1, NoAcc))
    /\ pc' = "reported"
    /\ UNCHANGED <<script, cfgVars, tspVars, costVars, D_file>>

NextEconomic ==
    \/ EconomicSelect
    \/ NNT_Start \/ NNT_Step \/ NNT_Return
    \/ CIT_Start \/ CIT_Insert \/ CIT_Return
    \/ EconomicReport

-----------------------------------------------------------------------------
(* The four scripts that read a data file, each from its selection on *)

InitScripts == InitEco \/ InitEconomic

NextScripts == NextEco \/ NextEconomic

SpecScripts == InitScripts /\ [][NextScripts]_vars

-----------------------------------------------------------------------------
(* Properties of the cost models (checked under SpecCost) *)

\* the call that has just returned or raised
Returned(fn) == pc = "returned" /\ call.fn = fn

\* the modes eligible for a pair of known labels, by the rule of the eco model
Eligible(a, b, distance) ==
    {m \in {"truck", "ship", "plane"} :
        \/ m = "plane"
        \/ /\ m = "truck"
           /\ meta[a].continent = meta[b].continent
           /\ distance <= max_truck_distance
        \/ /\ m = "ship"
           /\ meta[a].continent # meta[b].continent
           /\ meta[a].coastal
           /\ meta[b].coastal}

\* C5 (as claimed): a negative distance makes every cost function raise:
\* transport_cost, transport_cost_with_mode and get_metrics on a negative
\* distance, and build_cost_matrix on a matrix with a negative off-diagonal
\* entry, return nothing.
C5_NegativeDistanceIsFatal ==
    /\ (Returned("transport_cost") /\ call.distance < 0) => IsError(ret)
    /\ (Returned("transport_cost_with_mode") /\ call.distance < 0) => IsError(ret)
    /\ (Returned("get_metrics") /\ call.dist < 0) => IsError(ret)
    /\ (/\ Returned("build_cost_matrix")
        /\ \E p \in DOMAIN call.distance_matrix :
              p[1] # p[2] /\ call.distance_matrix[p] < 0)
       => IsError(ret)

\* C7: for known a, b and every distance, allowed_modes holds truck iff a and b
\* share the continent and distance <= max_truck_distance, ship iff the
\* continents differ and both are coastal, and plane always; two coastal nodes
\* of one continent 1400 km apart get exactly truck and plane.
C7_AllowedModesRule ==
    (Returned("allowed_modes") /\ call.a \in DOMAIN meta /\ call.b \in DOMAIN meta)
    => LET A == meta[call.a]
           B == meta[call.b]
           modes == Range(ret.value)
       IN  /\ ~IsError(ret)
           /\ "truck" \in modes
              <=> (A.continent = B.continent /\ call.distance <= max_truck_distance)
           /\ "ship" \in modes
              <=> (A.continent # B.continent /\ A.coastal /\ B.coastal)
           /\ "plane" \in modes
           /\ modes \subseteq {"truck", "ship", "plane"}
           /\ (/\ A.continent = B.continent /\ A.coastal /\ B.coastal
               /\ call.distance = 1400)
              => modes = {"truck", "plane"}

\* C7 witness: Barcelona to Monaco, 1400 km, gives the list truck, plane
C7_Witness ==
    /\ Returned("allowed_modes")
    /\ call.a = 2 /\ call.b = 3 /\ call.distance = 1400
    /\ ret = Ok(<<"truck", "plane">>)

\* C8: transport_cost_with_mode returns the least distance * factor over the
\* eligible modes, with the first mode of truck, ship, plane that attains it.
C8_FirstCheapestMode ==
    (/\ Returned("transport_cost_with_mode")
     /\ call.a \in DOMAIN meta /\ call.b \in DOMAIN meta)
    => LET E == Eligible(call.a, call.b, call.distance)
           cost(m) == call.distance * FACTORS[m]
           best_cost == ret.value[1]
           best_mode == ret.value[2]
       IN  /\ ~IsError(ret)
           /\ best_mode \in E
           /\ best_cost = cost(best_mode)
           /\ \A m \in E : best_cost <= cost(m)
           /\ \A i, j \in DOMAIN Modes :
                 (i < j /\ Modes[j] = best_mode /\ Modes[i] \in E)
                 => cost(Modes[i]) > best_cost

\* C8 witness: truck and plane cost the same and truck is returned; ship and
\* plane cost the same and ship is returned
C8_Witness ==
    /\ Returned("transport_cost_with_mode")
    /\ ~IsError(ret)
    /\ call.distance > 0
    /\ \/ /\ ret.value[2] = "truck"
          /\ FACTORS["truck"] = FACTORS["plane"]
       \/ /\ ret.value[2] = "ship"
          /\ FACTORS["ship"] = FACTORS["plane"]

\* C9: the cost matrix has 0 on the diagonal whatever the distance matrix
\* holds there, and every other entry is at most distance * factor for every
\* eligible mode and equal to it for one of them.
C9_CostMatrixEntries ==
    (/\ Returned("build_cost_matrix")
     /\ Index(call.distance_matrix) \subseteq DOMAIN meta)
    => LET M == call.distance_matrix
       IN  /\ ~IsError(ret)
           /\ DOMAIN ret.value = DOMAIN M
           /\ \A p \in DOMAIN M :
                 IF p[1] = p[2] THEN ret.value[p] = 0
                 ELSE LET E == Eligible(p[1], p[2], M[p])
                      IN  /\ \A m \in E : ret.value[p] <= M[p] * FACTORS[m]
                          /\ \E m \in E : ret.value[p] = M[p] * FACTORS[m]

\* C9 witness: a matrix with a non-zero diagonal entry and an entry costed
\* below the plane's cost
C9_Witness ==
    /\ Returned("build_cost_matrix")
    /\ ~IsError(ret)
    /\ \E p \in DOMAIN ret.value :
          /\ p[1] # p[2]
          /\ call.distance_matrix[<<p[1], p[1]>>] > 0
          /\ ret.value[<<p[1], p[1]>>] = 0
          /\ call.distance_matrix[p] > 0
          /\ ret.value[p] < call.distance_matrix[p] * FACTORS["plane"]

\* C10 (as claimed): for every distance and every parameter setting,
\* get_metrics on two different regions returns PLANE with the plane cost
\* and the plane score.
C10_AlwaysReturnsPlane ==
    (Returned("get_metrics") /\ call.reg1 # call.reg2)
    => /\ ~IsError(ret)
       /\ ret.value = <<p_cost(call.dist), p_score(call.dist), "PLANE">>

\* C10 (amended): get_metrics on two different regions raises exactly when
\* the normaliser is 0 or the distance is negative, and otherwise returns
\* PLANE with the plane cost and the plane score, whatever the scores are.
C10_PlaneForcedWhenReturned ==
    (Returned("get_metrics") /\ call.reg1 # call.reg2)
    => /\ IsError(ret) <=> (params.COST_NORMALIZER = 0 \/ call.dist < 0)
       /\ ~IsError(ret)
          => ret.value = <<p_cost(call.dist), p_score(call.dist), "PLANE">>

\* C10 witness: the truck score is strictly lower and PLANE is returned
C10_Witness ==
    /\ Returned("get_metrics")
    /\ call.reg1 # call.reg2
    /\ ~IsError(ret)
    /\ t_score(call.dist) < p_score(call.dist)
    /\ ret.value[3] = "PLANE"

\* C11: on two locations of one region get_metrics returns TRUCK, with the
\* truck cost and the truck score, iff the truck score <= the plane score
\* (equal scores give TRUCK), and PLANE with the plane cost and the plane
\* score otherwise; the cost and score returned are those of the mode returned.
C11_LowerScoreWinsTiesToTruck ==
    (Returned("get_metrics") /\ ~IsError(ret)) =>
        /\ call.reg1 = call.reg2 =>
              /\ ret.value[3] = "TRUCK" <=> t_score(call.dist) <= p_score(call.dist)
              /\ ret.value[3] = "PLANE" <=> t_score(call.dist) > p_score(call.dist)
        /\ ret.value[3] = "TRUCK" =>
              ret.value = <<t_cost(call.dist), t_score(call.dist), "TRUCK">>
        /\ ret.value[3] = "PLANE" =>
              ret.value = <<p_cost(call.dist), p_score(call.dist), "PLANE">>
        /\ ret.value[3] \in {"TRUCK", "PLANE"}

\* C11 witness: one region, equal scores under a weighted cost, TRUCK returned
C11_Witness ==
    /\ Returned("get_metrics")
    /\ ~IsError(ret)
    /\ call.reg1 = call.reg2
    /\ params.W_COST # 0
    /\ t_score(call.dist) = p_score(call.dist)
    /\ ret.value[3] = "TRUCK"

\* C12: for a fixed tour and fixed distances, raising the plane factor with
\* the truck and ship factors fixed never lowers the total weighted cost of
\* the tour and never turns the mode of an edge into plane.
C12_PlaneFactorMonotone ==
    (Returned("analyze_transport_modes") /\ run = 2) =>
        /\ weighted_total(call.path, call.distances) >= first.total
        /\ \A i \in DOMAIN ret.value.edges :
              ret.value.edges[i][3] = "plane" => first.edges[i][3] = "plane"

-----------------------------------------------------------------------------
(* Properties of the heuristics (checked under Spec and SpecRerun) *)

\* a heuristic has returned a value (it did not raise)
Solved == pc = "done" /\ ~IsError(result)

\* the tour of the returned value: insertion_tsp returns the tour alone, the
\* others a tuple whose first component is the tour
ReturnedTour ==
    IF script = "time_cost_multimodel_IH" THEN result.value ELSE result.value[1]

\* the first |nodes| elements of t hold every node of the list exactly once
VisitsEachOnce(t) ==
    /\ Len(t) >= Len(nodes)
    /\ \A k \in DOMAIN nodes :
          Cardinality({i \in 1..Len(nodes) : t[i] = nodes[k]}) = 1

\* t is closed (one more element, a copy of the first) exactly when roundtrip
ClosedIffRoundtrip(t) ==
    /\ Len(t) = Len(nodes) + (IF roundtrip THEN 1 ELSE 0)
    /\ roundtrip => t[Len(t)] = t[1]

\* C1: for at least 2 distinct nodes and either roundtrip, every nn_tsp
\* variant returns a path that starts at nodes[0], holds each node exactly
\* once, and ends with one more copy of nodes[0] exactly when roundtrip is
\* true (length |nodes|+1 closed, |nodes| open).
C1_NearestNeighbourPermutation ==
    (script \in NearestNeighbour /\ pc = "done" /\ Len(nodes) >= 2) =>
        /\ ~IsError(result)
        /\ ReturnedTour[1] = nodes[1]
        /\ VisitsEachOnce(ReturnedTour)
        /\ ClosedIffRoundtrip(ReturnedTour)

C1_Witness ==
    /\ script \in NearestNeighbour
    /\ Solved
    /\ Len(nodes) >= 3
    /\ roundtrip
    /\ ReturnedTour # nodes \o <<nodes[1]>>

\* C2: for at least 2 distinct nodes and either roundtrip, every
\* Cheapest-Insertion variant returns a tour in which each node appears
\* exactly once, plus the first element repeated as the last exactly when
\* roundtrip is true (length |nodes|+1 closed, |nodes| open).
C2_InsertionPermutation ==
    (script \in Insertion /\ pc = "done" /\ Len(nodes) >= 2) =>
        /\ ~IsError(result)
        /\ VisitsEachOnce(ReturnedTour)
        /\ ClosedIffRoundtrip(ReturnedTour)

C2_Witness ==
    /\ script \in Insertion
    /\ Solved
    /\ Len(nodes) >= 3
    /\ ~roundtrip
    /\ ReturnedTour[1] # nodes[1]

\* C3: running a heuristic again on the same node list, matrix and roundtrip
\* flag yields the same tour and the same total, also on ties; the result
\* does not depend on the iteration order of the unvisited set.
C3_RerunSameResult == (run = 2 /\ pc = "done") => result = first

\* C4: a node list of fewer than 2 nodes is never solved: every heuristic
\* ends in an error before any construction step runs, and returns no tour.
C4_FewerThanTwoIsError ==
    Len(nodes) < 2 => /\ pc # "loop"
                      /\ pc = "done" => IsError(result)

\* an iteration of "while unvisited" of a Nearest-Neighbour variant
NearestStep == script \in NearestNeighbour /\ pc = "loop" /\ unvisited # <<>>

\* the cost of the edge (a, b): the entry of the matrix the variant is given,
\* and in the economic variants the cost get_metrics returns for the edge
EdgeCost(a, b) ==
    IF script \in EconomicScripts THEN EdgeMetrics(a, b)[1] ELSE D[<<a, b>>]

\* what the variant compares: the entry of the matrix, and in the economic
\* variants the score get_metrics returns for the edge
EdgeKey(a, b) ==
    IF script \in EconomicScripts THEN EdgeMetrics(a, b)[2] ELSE D[<<a, b>>]

\* C19 as stated: at every step of Nearest-Neighbour the node appended to the
\* path has the least cost(current, candidate) among the nodes unvisited at
\* that step, current being the last node of the path so far.
C19_AppendedHasLeastCost ==
    [][NearestStep =>
          \A k \in Range(unvisited) :
              EdgeCost(cur, tour'[Len(tour')]) <= EdgeCost(cur, k)]_vars

\* C19 amended: at every step the node appended has the least value of what
\* the variant minimises among the nodes unvisited at that step: the entry
\* D[current, candidate] in the two matrix variants, the score of
\* get_metrics (not its cost) in the economic variant.
C19_AppendedHasLeastKey ==
    [][NearestStep =>
          /\ cur = tour[Len(tour)]
          /\ tour'[Len(tour')] \in Range(unvisited)
          /\ \A k \in Range(unvisited) :
                EdgeKey(cur, tour'[Len(tour')]) <= EdgeKey(cur, k)]_vars

\* the economic variant has appended, from the start node, a node of least
\* score while a node of lower cost is still unvisited
C19_Witness ==
    /\ script = "time_cost_multimodel_NN"
    /\ pc = "loop"
    /\ Len(tour) = 2
    /\ \E k \in Range(unvisited) :
          /\ EdgeMetrics(tour[1], tour[2])[2] < EdgeMetrics(tour[1], k)[2]
          /\ EdgeMetrics(tour[1], k)[1] < EdgeMetrics(tour[1], tour[2])[1]

\* C20: when several unvisited candidates share the least value from the
\* current node, every Nearest-Neighbour variant appends the one whose label
\* is the smallest in sorted order.
C20_TieToSmallestLabel ==
    [][NearestStep =>
          \A k \in Range(unvisited) :
              EdgeKey(cur, k) = EdgeKey(cur, tour'[Len(tour')]) => tour'[Len(tour')] <= k]_vars

\* the entries of the matrix along the consecutive pairs of a path, summed
\* from the left
SumOfLegs(path) == Sum([i \in 1..(Len(path) - 1) |-> D[<<path[i], path[i + 1]>>]])

\* the costs get_metrics gives for the consecutive pairs of a path, summed
\* from the left
SumOfLegCosts(path) ==
    Sum([i \in 1..(Len(path) - 1) |-> EdgeMetrics(path[i], path[i + 1])[1]])

\* C21: the total a heuristic returns is the sum, from the left, of the cost
\* of every consecutive pair of the tour it returns: the running total of
\* Nearest-Neighbour holds the leg back to the start exactly when roundtrip
\* is true, and the total of an insertion variant is the sum over the final
\* sequence, closed or opened. (insertion_tsp of the economic script returns
\* no total.)
C21_TotalIsSumOfLegs ==
    (Solved /\ script # "time_cost_multimodel_IH") =>
        /\ script = "time_cost_multimodel_NN" =>
              /\ result.value[3] = SumOfLegs(ReturnedTour)
              /\ result.value[4] = SumOfLegCosts(ReturnedTour)
        /\ script # "time_cost_multimodel_NN" =>
              result.value[2] = SumOfLegs(ReturnedTour)
        /\ (script \in NearestNeighbour /\ nodes # <<>>) =>
              Len(ReturnedTour) = Len(nodes) + (IF roundtrip THEN 1 ELSE 0)

\* an insertion variant has returned an opened path of three nodes with a
\* total that is not 0
C21_Witness ==
    /\ script \in {"insertion_heuristic_initial_situation", "Eco_SI_main"}
    /\ Solved
    /\ ~roundtrip
    /\ Len(nodes) >= 3
    /\ result.value[2] = SumOfLegs(ReturnedTour)
    /\ result.value[2] > 0

\* the main loop of an insertion variant is about to run for the first time
\* on a list of at least 2 nodes
InsertionSeeded == script \in Insertion /\ pc = "loop" /\ Len(tour) = 3 /\ Len(nodes) >= 2

\* C22: every Cheapest-Insertion variant starts from the 2-cycle
\* [start, second, start], start = nodes[0], second a node of least
\* cost(start, second) among all the other nodes of the list, wherever that
\* node stands in the list.
C22_SeededWithNearest ==
    InsertionSeeded =>
        /\ tour[1] = nodes[1] /\ tour[3] = nodes[1]
        /\ tour[2] \in Range(nodes) \ {nodes[1]}
        /\ \A k \in Range(nodes) \ {nodes[1]} :
              EdgeCost(nodes[1], tour[2]) <= EdgeCost(nodes[1], k)

\* an iteration of the main loop of an insertion variant
InsertionStep == script \in Insertion /\ pc = "loop" /\ unvisited # <<>>

\* cost(a, x) + cost(x, b) - cost(a, b) for the edge (a, b) at position i
\* (from 0) of tour t
InsertionDelta(t, x, i) ==
    EdgeCost(t[i + 1], x) + EdgeCost(x, t[i + 2]) - EdgeCost(t[i + 1], t[i + 2])

\* the same with what the variant compares
InsertionKeyDelta(t, x, i) ==
    EdgeKey(t[i + 1], x) + EdgeKey(x, t[i + 2]) - EdgeKey(t[i + 1], t[i + 2])

\* C23: at every insertion step the node inserted and its position attain
\* the least cost(a,x) + cost(x,b) - cost(a,b) over all the nodes x still
\* unvisited and all the adjacent pairs (a,b) of the tour: no other unvisited
\* node has a smaller delta at any edge.
C23_InsertsGlobalMinimum ==
    [][InsertionStep =>
          \E x \in Range(unvisited) : \E i \in 0..(Len(tour) - 2) :
              /\ tour' = Insert(tour, i + 1, x)
              /\ \A y \in Range(unvisited) : \A j \in 0..(Len(tour) - 2) :
                    InsertionDelta(tour, x, i) <= InsertionDelta(tour, y, j)]_vars

\* an insertion variant returns an open path: the cycle is finished, and
\* roundtrip is false
OpeningStep ==
    /\ script \in Insertion /\ pc = "loop" /\ unvisited = <<>>
    /\ ~roundtrip /\ Len(nodes) >= 2
    /\ pc' = "done"

\* the closed cycle t without its edge number i, (t[i], t[i + 1]): the path
\* from t[i + 1] round to t[i]
OpenedAt(t, i) == SubSeq(t, i + 1, Len(t) - 1) \o SubSeq(t, 1, i)

\* C24: when roundtrip is false, Cheapest-Insertion returns the finished
\* cycle without exactly one edge (a,b), an edge of least cost among all the
\* edges of the cycle, rotated so that the path starts at b and ends at a,
\* in the direction and order of the cycle.
C24_OpenedAtCheapestEdge ==
    [][OpeningStep =>
          /\ ~IsError(result')
          /\ \E i \in 1..(Len(tour) - 1) :
                /\ ReturnedTour' = OpenedAt(tour, i)
                /\ \A j \in 1..(Len(tour) - 1) :
                      EdgeCost(tour[i], tour[i + 1]) <= EdgeCost(tour[j], tour[j + 1])]_vars

\* the main loop of an insertion variant is at its head
InInsertionLoop == script \in Insertion /\ pc = "loop"

\* C25: in every state of the main loop of Cheapest-Insertion the tour is a
\* closed cycle (its first and its last element are nodes[0]), no other node
\* occurs twice in it, and the nodes of the tour and the unvisited nodes are
\* disjoint and together exactly the nodes of the input.
C25_LoopInvariant ==
    InInsertionLoop =>
        /\ tour[1] = nodes[1] /\ tour[Len(tour)] = nodes[1]
        /\ \A i, j \in 1..(Len(tour) - 1) : i # j => tour[i] # tour[j]
        /\ Range(tour) \cap Range(unvisited) = {}
        /\ Range(tour) \cup Range(unvisited) = Range(nodes)

\* the cost of a cycle: what the variant compares, summed over its edges
CycleCost(t) == Sum([i \in 1..(Len(t) - 1) |-> EdgeKey(t[i], t[i + 1])])

\* C27: each insertion raises the total cost of the closed cycle by exactly
\* the delta cost(a,x) + cost(x,b) - cost(a,b) of the node and edge chosen:
\* the cost of the cycle after the step is its cost before plus that delta,
\* on symmetric and on asymmetric matrices.
C27_InsertionAddsDelta ==
    [][InsertionStep =>
          \E x \in Range(unvisited) : \E i \in 0..(Len(tour) - 2) :
              /\ tour' = Insert(tour, i + 1, x)
              /\ CycleCost(tour') = CycleCost(tour) + InsertionKeyDelta(tour, x, i)]_vars

\* a node has been inserted into the cycle on a matrix that is not symmetric
C27_Witness ==
    /\ script \in {"insertion_heuristic_initial_situation", "Eco_SI_main"}
    /\ pc = "loop"
    /\ Len(tour) = 4
    /\ \E a, b \in Range(tour) : D[<<a, b>>] # D[<<b, a>>]
    /\ CycleCost(tour) > 0

\* C28: when cheapest_insertion_tsp opens the cycle (roundtrip false), the
\* total of the open path it returns is the total of the closed cycle minus
\* the cost of the edge removed, and the path holds the nodes of the cycle in
\* the same cyclic order. (insertion_tsp of the economic script returns the
\* path alone.)
C28_OpenTotalIsCycleMinusEdge ==
    [][(OpeningStep /\ ~IsError(result')) =>
          \E i \in 1..(Len(tour) - 1) :
              /\ ReturnedTour' = OpenedAt(tour, i)
              /\ script # "time_cost_multimodel_IH" =>
                    result'.value[2] = SumOfLegs(tour) - D[<<tour[i], tour[i + 1]>>]]_vars

\* cheapest_insertion_tsp has returned an open path of at least three nodes
\* that does not start at nodes[0]
C28_Witness ==
    /\ script = "insertion_heuristic_initial_situation"
    /\ Solved
    /\ ~roundtrip
    /\ Len(nodes) >= 3
    /\ ReturnedTour[1] # nodes[1]
    /\ result.value[2] > 0

\* what a step does to unvisited and the tour: the call on n >= 2 nodes
\* enters its loop with n - 1 (Nearest-Neighbour) or n - 2 (insertion) nodes
\* unvisited; an iteration takes exactly one node out of unvisited and puts
\* it into the tour; the loop is left once unvisited is empty
OneNodePerIteration ==
    /\ (pc = "start" /\ Len(nodes) >= 2) =>
          /\ pc' = "loop"
          /\ Len(unvisited') = Len(nodes) - (IF script \in NearestNeighbour THEN 1 ELSE 2)
    /\ (pc = "loop" /\ unvisited # <<>>) =>
          /\ pc' = "loop"
          /\ Len(unvisited') = Len(unvisited) - 1
          /\ Len(tour') = Len(tour) + 1
          /\ \E x \in Range(unvisited) \ Range(tour) :
                /\ Range(unvisited') = Range(unvisited) \ {x}
                /\ Range(tour') = Range(tour) \cup {x}
    /\ (pc = "loop" /\ unvisited = <<>>) => pc' = "done"

\* C29: on every list of n >= 2 distinct nodes both heuristics terminate:
\* each iteration takes exactly one node out of unvisited and adds it to the
\* tour, so Nearest-Neighbour returns after exactly n - 1 selections and
\* Cheapest-Insertion after exactly n - 2 insertions, unvisited being empty.
C29_Terminates ==
    /\ [][OneNodePerIteration]_vars
    /\ (pc = "start" /\ Len(nodes) >= 2) ~> (Solved /\ unvisited = <<>>)

\* a heuristic has returned on four nodes: after three selections, or two
\* insertions
C29_Witness ==
    /\ Solved
    /\ Len(nodes) = 4
    /\ unvisited = <<>>
    /\ Len(ReturnedTour) = Len(nodes) + (IF roundtrip THEN 1 ELSE 0)

-----------------------------------------------------------------------------
(* Properties of the eco scripts (checked under SpecEco) *)

\* a selected node has no entry in the metadata
UnknownSelected == \E k \in DOMAIN nodes : nodes[k] \notin Labels

\* C6: in the eco scripts, if a selected node has no entry in the metadata,
\* build_cost_matrix ends in an error before the heuristic takes its first
\* step, and no cost matrix, tour or total is produced.
C6_UnknownLabelRejected ==
    UnknownSelected =>
        /\ pc \notin {"start", "loop"}
        /\ pc = "done" => IsError(ret) /\ IsError(result)

-----------------------------------------------------------------------------
(* Properties on the example instance (checked under SpecExample) *)

\* the example as the scenarios give it: nodes in the order 0, 1, 2, 3, closed
ExampleScenario == D = ExampleMatrix /\ nodes = <<1, 2, 3, 4>> /\ roundtrip

\* C13: on the example matrix with nodes 0, 1, 2, 3 and roundtrip true,
\* Nearest Neighbour returns the path 0, 1, 3, 2, 0 with total 80.
C13_ExampleNearestNeighbour ==
    (ExampleScenario /\ script \in MatrixNearestNeighbour /\ pc = "done") =>
        result = Ok(<<<<1, 2, 4, 3, 1>>, 80>>)

C13_Witness ==
    /\ ExampleScenario
    /\ script = "Eco_NN_main"
    /\ Solved
    /\ ReturnedTour = <<1, 2, 4, 3, 1>>

\* C14: on the example matrix with nodes 0, 1, 2, 3 and roundtrip true,
\* Cheapest Insertion returns a closed cycle through all 4 nodes whose total
\* is non-negative and at most the total of Nearest Neighbour on the instance.
C14_ExampleInsertionNotWorse ==
    (ExampleScenario /\ script \in MatrixInsertion /\ pc = "done") =>
        /\ ~IsError(result)
        /\ VisitsEachOnce(ReturnedTour)
        /\ Len(ReturnedTour) = Len(nodes) + 1
        /\ ReturnedTour[1] = ReturnedTour[Len(ReturnedTour)]
        /\ result.value[2] >= 0
        /\ result.value[2] <= first.value[2]

C14_Witness ==
    /\ ExampleScenario
    /\ script = "insertion_heuristic_initial_situation"
    /\ Solved
    /\ first = Ok(<<<<1, 2, 4, 3, 1>>, 80>>)
    /\ result.value[2] = path_length(ReturnedTour)

-----------------------------------------------------------------------------
(* Properties of the scripts (checked under SpecScripts) *)

\* the tour whose evaluation is in report (eco scripts, economic insertion)
\* or was made along with the tour (economic Nearest Neighbour)
Evaluated ==
    \/ script \in EcoScripts /\ pc \in {"analyzed", "reported"} /\ ~IsError(report)
    \/ script = "time_cost_multimodel_IH" /\ pc = "reported" /\ ~IsError(report)
    \/ script = "time_cost_multimodel_NN" /\ pc = "done" /\ ~IsError(result)

\* the consecutive pairs of a sequence
Legs(path) == 1..(Len(path) - 1)

\* the evaluation of the eco scripts counts every leg under its mode
EcoLegsCounted ==
    LET path == ReturnedTour
        edges == report.value.edges
        stats == report.value.stats
        mode(i) == transport_cost_with_mode(path[i], path[i + 1],
                                            D_file[<<path[i], path[i + 1]>>]).value[2]
    IN  /\ stats["truck"].count + stats["ship"].count + stats["plane"].count = Len(path) - 1
        /\ stats["truck"].km + stats["ship"].km + stats["plane"].km
               = Sum([i \in Legs(path) |-> D_file[<<path[i], path[i + 1]>>]])
        /\ report.value.pure_distance = Sum([i \in Legs(path) |-> D_file[<<path[i], path[i + 1]>>]])
        /\ DOMAIN edges = Legs(path)
        /\ \A i \in Legs(path) : edges[i] = <<path[i], path[i + 1], mode(i)>>
        /\ \A m \in DOMAIN stats :
              stats[m].count = Cardinality({i \in Legs(path) : mode(i) = m})

\* the evaluation of the economic scripts counts every leg under its mode
EconomicLegsCounted ==
    LET path == ReturnedTour
        a == IF script = "time_cost_multimodel_IH" THEN report.value
             ELSE [modes_used |-> result.value[2], total_dist |-> result.value[3],
                   total_cost |-> result.value[4], t_count |-> result.value[5],
                   p_count |-> result.value[6]]
        mode(i) == EdgeMetrics(path[i], path[i + 1])[3]
    IN  /\ a.t_count + a.p_count = Len(path) - 1
        /\ a.total_dist = Sum([i \in Legs(path) |-> D[<<path[i], path[i + 1]>>]])
        /\ DOMAIN a.modes_used = Legs(path)
        /\ \A i \in Legs(path) : a.modes_used[i] = mode(i)
        /\ a.p_count = Cardinality({i \in Legs(path) : mode(i) = "PLANE"})

\* C15: the route evaluation counts each consecutive pair of the tour once,
\* under the mode the cost model selects for it: the leg counts of the modes
\* sum to len(tour) - 1, their km sum to the raw distance of the tour, and the
\* edge list has one (from, to, mode) entry per consecutive pair, in order.
C15_EveryLegCountedOnce ==
    Evaluated => IF script \in EcoScripts THEN EcoLegsCounted ELSE EconomicLegsCounted

\* C15 witness: a closed eco tour of three legs evaluated under two modes
C15_Witness ==
    /\ script \in EcoScripts
    /\ pc = "reported"
    /\ ~IsError(report)
    /\ Len(report.value.edges) = 3
    /\ report.value.stats["truck"].count > 0
    /\ report.value.stats["ship"].count > 0

\* the report holds an average transport factor
Reported == script \in EcoScripts /\ pc = "reported" /\ ~IsError(report)

\* C16: the average transport factor equals total_cost / total_distance
\* whenever total_distance is not 0, and is 0, without an error, when
\* total_distance is 0.
C16_AverageFactor ==
    Reported =>
        LET avg_factor == report.value.avg_factor
            total_cost == result.value[2]
            total_distance == report.value.pure_distance
        IN  IF total_distance # 0
            THEN avg_factor.num * total_distance = total_cost * avg_factor.den
            ELSE avg_factor.num = 0

\* the heuristic of a script is about to be called on nodes
HandedToHeuristic == script \in EcoScripts \cup EconomicScripts /\ pc = "start"

\* the label set of the matrix the script has loaded
LoadedLabels == IF script \in EcoScripts THEN FileLabels ELSE EconomicLabels

\* C17: after the selection step, whatever the user answered, the node list
\* handed to a heuristic holds at least 2 labels, pairwise distinct, each a
\* label of the loaded matrix.
C17_SelectionValid ==
    HandedToHeuristic =>
        /\ Len(nodes) >= 2
        /\ \A i, j \in DOMAIN nodes : i # j => nodes[i] # nodes[j]
        /\ Range(nodes) \subseteq LoadedLabels

\* a step of a heuristic of the scripts
HeuristicStep == pc \in {"start", "loop"}

\* the step of the eco scripts that calls analyze_transport_modes
AnalysisStep == script \in EcoScripts /\ pc = "done" /\ pc' = "analyzed"

EcoEvaluated == script \in EcoScripts /\ pc \in {"analyzed", "reported"} /\ ~IsError(report)

====
